---- MODULE Spec2Model ----
(***************************************************************************)
(* Model of src/ingest.py: a single-threaded driver that bootstraps a      *)
(* PostgreSQL/Timescale schema, seeds reference data, and then polls a     *)
(* price API, appending one transactions row per returned asset per cycle. *)
(*                                                                         *)
(* The store is modelled with PostgreSQL semantics: statements run inside  *)
(* the connection's current transaction (psycopg2 opens one on the first   *)
(* execute), writes become visible to the store on commit, are discarded   *)
(* on rollback or on close, and SERIAL sequences advance outside of any    *)
(* transaction (they are not rolled back).                                 *)
(***************************************************************************)
EXTENDS Integers, Sequences, FiniteSets, TLC

\* ---------------------------------------------------------------- bounds
MaxRuns == 2        \* process starts (the store outlives the process)
MaxCycles == 2      \* ingest cycles begun, over all process runs
MaxResp == 2        \* asset ids in one API response

\* ------------------------------------------------------------- constants
POLL_SECONDS == 30

ASSETS == [bitcoin |-> <<"BTC", "Bitcoin">>, ethereum |-> <<"ETH", "Ethereum">>]

\* iteration order of ASSETS.items()
AssetOrder == <<"bitcoin", "ethereum">>

\* ------------------------------------------------- environment's inputs
\* asset ids the API may return: the configured ones and one that is not,
\* in the order the API lists them
CgOrder == <<"bitcoin", "ethereum", "dogecoin">>

CgIds == {CgOrder[i] : i \in 1..Len(CgOrder)}

CgIndex(cg) == CHOOSE i \in 1..Len(CgOrder) : CgOrder[i] = cg

Prices == {3500, 67000}

\* a payload is {"usd": price}, or an object without the "usd" key
NoUsd == [eur |-> 0]

Payloads == [usd : Prices] \cup {NoUsd}

Responses ==
    UNION { { s \in [1..n -> [cg : CgIds, payload : Payloads]] :
                \A i, j \in 1..n : i < j => CgIndex(s[i].cg) < CgIndex(s[j].cg) }
            : n \in 0..MaxResp }

\* exception classes raised inside main()
ExceptionSubclasses == {"HTTPError", "Timeout", "KeyError", "DBError"}

FetchErrors == {"HTTPError", "Timeout"}

VARIABLES
    schema,            \* store: names of the tables / indexes that exist
    users,             \* store: committed rows of users
    assets,            \* store: committed rows of assets
    transactions,      \* store: committed rows of transactions
    users_seq,         \* store: last value of users.id's sequence
    assets_seq,        \* store: last value of assets.id's sequence
    tx_seq,            \* store: last value of transactions.id's sequence
    connOpen,          \* conn is open
    txOpen,            \* conn is inside a transaction
    pending,           \* uncommitted writes of conn's transaction
    pc,                \* position of main()
    exc,               \* exception being raised / handled, or "none"
    runs,              \* process starts so far
    cycles,            \* ingest cycles begun so far
    clock,             \* wall clock, seconds
    data,              \* ingest_once: data
    ts,                \* ingest_once: ts
    asset_id_by_symbol,\* ingest_once: asset_id_by_symbol
    rows               \* ingest_once: rows

store == <<schema, users, assets, transactions, users_seq, assets_seq, tx_seq>>
conn == <<connOpen, txOpen, pending>>
locals == <<data, ts, asset_id_by_symbol, rows>>
vars == <<store, conn, pc, exc, runs, cycles, clock, locals>>

EmptyPending == [users |-> {}, assets |-> {}, transactions |-> {}]

NoMap == [s \in {} |-> 0]


\* ------------------------------------------------------ store semantics
\* what a statement of conn's transaction sees: committed rows and its own
Visible(tbl, pend) == tbl \cup pend

\* faulty variant: the commit replaces the table by the transaction's writes
CommitTable_Overwrites(tbl, pend) == pend

\* conn.commit(): the transaction's writes become rows of the table
CommitTable(tbl, pend) == tbl \cup pend

\* faulty variant: the handler commits where it should roll back
RollbackTable_Commits(tbl, pend) == tbl \cup pend

\* conn.rollback(): the table keeps its committed rows only
RollbackTable(tbl, pend) == tbl

\* conn.rollback(): the transaction's writes are discarded
RollbackPending(pend) == EmptyPending

\* faulty variant: closing the connection commits the open transaction
CloseTable_Commits(tbl, pend) == tbl \cup pend

\* conn.close() with a transaction open: the server discards its writes
CloseTable(tbl, pend) == tbl

\* ---------------------------------------------------------- ensure_schema
\* CREATE TABLE IF NOT EXISTS x3, create_hypertable(if_not_exists), and the
\* index created when pg_indexes does not list it
EnsureSchemaObjects(objs) ==
    LET tables == objs \cup {"users", "assets", "transactions", "hypertable"}
    IN  IF "assets_symbol_key" \in tables THEN tables
        ELSE tables \cup {"assets_symbol_key"}

\* ---------------------------------------------------- seed_reference_data
\* INSERT INTO users (name) VALUES ('Sarah') ON CONFLICT DO NOTHING:
\* users has no unique constraint but its primary key id, which the row
\* takes from the sequence
InsertUser(visible, seq, name) ==
    LET row == [id |-> seq + 1, name |-> name]
    IN  IF \E u \in visible : u.id = row.id THEN {} ELSE {row}

\* faulty variant: a plain INSERT, with no unique index on symbol to arbitrate
InsertAsset_NoConflict(visible, seq, symbol, name) ==
    {[id |-> seq + 1, symbol |-> symbol, name |-> name]}

\* INSERT INTO assets (symbol, name) ... ON CONFLICT (symbol) DO NOTHING:
\* the unique index assets_symbol_key arbitrates
InsertAsset(visible, seq, symbol, name) ==
    LET row == [id |-> seq + 1, symbol |-> symbol, name |-> name]
    IN  IF \E a \in visible : a.symbol = row.symbol \/ a.id = row.id THEN {} ELSE {row}

\* the for loop over ASSETS.items(): the rows it adds, from position i on;
\* every INSERT takes a sequence value, also when it conflicts
RECURSIVE SeedAssets(_, _, _)
SeedAssets(visible, seq, i) ==
    IF i > Len(AssetOrder) THEN {}
    ELSE LET cfg == ASSETS[AssetOrder[i]]
             new == InsertAsset(visible, seq, cfg[1], cfg[2])
         IN  new \cup SeedAssets(visible \cup new, seq + 1, i + 1)

\* -------------------------------------------------------- get_asset_id_map
\* {sym: aid for aid, sym in rows}
AssetIdMap(tbl) ==
    [s \in {a.symbol : a \in tbl} |-> (CHOOSE a \in tbl : a.symbol = s).id]

\* ------------------------------------------------------------ ingest_once
\* faulty variant: price and amount change places in the tuple
MakeRow_Swapped(asset_id, price, t) ==
    [user_id |-> 1, asset_id |-> asset_id, amount |-> price, price_usd |-> 1, ts |-> t]

\* rows.append((1, asset_id, 1, price, ts))
MakeRow(asset_id, price, t) ==
    [user_id |-> 1, asset_id |-> asset_id, amount |-> 1, price_usd |-> price, ts |-> t]

\* does the loop body raise KeyError for this item of data.items()
RaisesKeyError(item, idmap) ==
    \/ item.cg \notin DOMAIN ASSETS
    \/ ASSETS[item.cg][1] \notin DOMAIN idmap
    \/ "usd" \notin DOMAIN item.payload

\* faulty variant: items that would raise KeyError are skipped
BuildRows_SkipsUnknown(d, idmap, t) ==
    LET good == SelectSeq(d, LAMBDA item : ~RaisesKeyError(item, idmap))
    IN  [ok |-> TRUE,
         rows |-> [i \in 1..Len(good) |->
                     MakeRow(idmap[ASSETS[good[i].cg][1]], good[i].payload.usd, t)]]

\* the for loop over data.items(): the rows list, or a KeyError
BuildRows(d, idmap, t) ==
    IF \E i \in 1..Len(d) : RaisesKeyError(d[i], idmap)
    THEN [ok |-> FALSE, rows |-> << >>]
    ELSE [ok |-> TRUE,
          rows |-> [i \in 1..Len(d) |->
                      MakeRow(idmap[ASSETS[d[i].cg][1]], d[i].payload.usd, t)]]

\* the multi-row INSERT INTO transactions: ids come from the sequence
InsertRows(rs, seq) ==
    { [id |-> seq + i, user_id |-> rs[i].user_id, asset_id |-> rs[i].asset_id,
       amount |-> rs[i].amount, price_usd |-> rs[i].price_usd, ts |-> rs[i].ts]
      : i \in 1..Len(rs) }

\* transactions.user_id REFERENCES users(id), asset_id REFERENCES assets(id)
ForeignKeysHold(rs, usrs, asts) ==
    \A i \in 1..Len(rs) :
        /\ \E u \in usrs : u.id = rs[i].user_id
        /\ \E a \in asts : a.id = rs[i].asset_id

\* --------------------------------------------------------------- main
StartupPcs == {"schema", "seed_user", "seed_assets", "seed_commit"}

\* the statements of ingest_once, inside the inner try
CyclePcs == {"fetch", "map", "build", "insert", "commit"}

HandlerPcs == {"http_handler", "generic_handler"}

\* every position inside the outer try
InTry == StartupPcs \cup CyclePcs \cup HandlerPcs \cup {"sleep"}

Terminating == {"stopping", "finally"}

\* faulty variant: the inner try has the except requests.HTTPError clause only
HandlerFor_HttpOnly(e, at) ==
    IF at \in CyclePcs /\ e = "HTTPError" THEN "http_handler"
    ELSE IF e = "KeyboardInterrupt" THEN "stopping"
    ELSE "finally"

\* faulty variant: the inner try also wraps ensure_schema and seed_reference_data
HandlerFor_TryCoversStartup(e, at) ==
    IF at \in CyclePcs \cup StartupPcs /\ e = "HTTPError" THEN "http_handler"
    ELSE IF at \in CyclePcs \cup StartupPcs /\ e \in ExceptionSubclasses
         THEN "generic_handler"
    ELSE IF e = "KeyboardInterrupt" THEN "stopping"
    ELSE "finally"

\* where an exception of class e raised at position at is handled:
\* the inner try's except clauses cover ingest_once only, the outer try
\* catches KeyboardInterrupt, anything else leaves through finally
HandlerFor(e, at) ==
    IF at \in CyclePcs /\ e = "HTTPError" THEN "http_handler"
    ELSE IF at \in CyclePcs /\ e \in ExceptionSubclasses THEN "generic_handler"
    ELSE IF e = "KeyboardInterrupt" THEN "stopping"
    ELSE "finally"

ClearLocals ==
    /\ data' = << >>
    /\ ts' = 0
    /\ asset_id_by_symbol' = NoMap
    /\ rows' = << >>

\* an exception of class e is raised at the current position; unwinding
\* out of the while loop drops ingest_once's frame
Raise(e) ==
    /\ pc' = HandlerFor(e, pc)
    /\ exc' = e
    /\ IF HandlerFor(e, pc) \in HandlerPcs THEN UNCHANGED locals ELSE ClearLocals

tables == <<users, assets, transactions>>
seqs == <<users_seq, assets_seq, tx_seq>>

\* conn.commit()
DoCommit ==
    /\ users' = CommitTable(users, pending.users)
    /\ assets' = CommitTable(assets, pending.assets)
    /\ transactions' = CommitTable(transactions, pending.transactions)
    /\ pending' = EmptyPending
    /\ txOpen' = FALSE

\* conn.rollback()
DoRollback ==
    /\ users' = RollbackTable(users, pending.users)
    /\ assets' = RollbackTable(assets, pending.assets)
    /\ transactions' = RollbackTable(transactions, pending.transactions)
    /\ pending' = RollbackPending(pending)
    /\ txOpen' = FALSE

\* conn.close()
DoClose ==
    /\ users' = CloseTable(users, pending.users)
    /\ assets' = CloseTable(assets, pending.assets)
    /\ transactions' = CloseTable(transactions, pending.transactions)
    /\ pending' = EmptyPending
    /\ txOpen' = FALSE
    /\ connOpen' = FALSE

Init ==
    /\ schema = {}
    /\ users = {}
    /\ assets = {}
    /\ transactions = {}
    /\ users_seq = 0
    /\ assets_seq = 0
    /\ tx_seq = 0
    /\ connOpen = FALSE
    /\ txOpen = FALSE
    /\ pending = EmptyPending
    /\ pc = "boot"
    /\ exc = "none"
    /\ runs = 1
    /\ cycles = 0
    /\ clock = 0
    /\ data = << >>
    /\ ts = 0
    /\ asset_id_by_symbol = NoMap
    /\ rows = << >>

\* psycopg2.connect(...) returns a connection
Connect ==
    /\ pc = "boot"
    /\ connOpen' = TRUE
    /\ pc' = "schema"
    /\ UNCHANGED <<store, txOpen, pending, exc, runs, cycles, clock, locals>>

\* psycopg2.connect(...) raises: main() is left before its try statement
ConnectFail ==
    /\ pc = "boot"
    /\ pc' = "exited"
    /\ exc' = "DBError"
    /\ UNCHANGED <<store, conn, runs, cycles, clock, locals>>

\* ensure_schema(conn): its statements and its commit
EnsureSchema ==
    /\ pc = "schema"
    /\ schema' = EnsureSchemaObjects(schema)
    /\ pc' = "seed_user"
    /\ UNCHANGED <<tables, seqs, conn, exc, runs, cycles, clock, locals>>

\* a statement of ensure_schema, or its commit, raises
EnsureSchemaFail ==
    /\ pc = "schema"
    /\ Raise("DBError")
    /\ txOpen' = TRUE
    /\ UNCHANGED <<store, connOpen, pending, runs, cycles, clock>>

\* seed_reference_data: the INSERT INTO users
SeedUser ==
    /\ pc = "seed_user"
    /\ pending' = [pending EXCEPT !.users =
                      @ \cup InsertUser(Visible(users, pending.users), users_seq, "Sarah")]
    /\ users_seq' = users_seq + 1
    /\ txOpen' = TRUE
    /\ pc' = "seed_assets"
    /\ UNCHANGED <<schema, tables, assets_seq, tx_seq, connOpen, exc, runs, cycles,
                   clock, locals>>

\* seed_reference_data: the loop of INSERT INTO assets
SeedAssetRows ==
    /\ pc = "seed_assets"
    /\ "assets_symbol_key" \in schema
    /\ pending' = [pending EXCEPT !.assets =
                      @ \cup SeedAssets(Visible(assets, pending.assets), assets_seq, 1)]
    /\ assets_seq' = assets_seq + Len(AssetOrder)
    /\ pc' = "seed_commit"
    /\ UNCHANGED <<schema, tables, users_seq, tx_seq, connOpen, txOpen, exc, runs,
                   cycles, clock, locals>>

\* seed_reference_data: conn.commit()
SeedCommit ==
    /\ pc = "seed_commit"
    /\ DoCommit
    /\ pc' = "fetch"
    /\ UNCHANGED <<schema, seqs, connOpen, exc, runs, cycles, clock, locals>>

\* a statement of seed_reference_data, or its commit, raises
SeedFail ==
    /\ pc \in {"seed_user", "seed_assets", "seed_commit"}
    /\ Raise("DBError")
    /\ txOpen' = TRUE
    /\ UNCHANGED <<store, connOpen, pending, runs, cycles, clock>>

\* ingest_once: fetch_prices() returns, then ts = utcnow()
FetchOK ==
    /\ pc = "fetch"
    /\ cycles < MaxCycles
    /\ \E d \in Responses : data' = d
    /\ ts' = clock
    /\ cycles' = cycles + 1
    /\ pc' = "map"
    /\ UNCHANGED <<store, conn, exc, runs, clock, asset_id_by_symbol, rows>>

\* ingest_once: fetch_prices() raises (raise_for_status, or the timeout)
FetchFail ==
    /\ pc = "fetch"
    /\ cycles < MaxCycles
    /\ \E e \in FetchErrors : Raise(e)
    /\ cycles' = cycles + 1
    /\ UNCHANGED <<store, conn, runs, clock>>

\* ingest_once: get_asset_id_map(conn)
GetAssetIdMap ==
    /\ pc = "map"
    /\ asset_id_by_symbol' = AssetIdMap(Visible(assets, pending.assets))
    /\ txOpen' = TRUE
    /\ pc' = "build"
    /\ UNCHANGED <<store, connOpen, pending, exc, runs, cycles, clock, data, ts, rows>>

\* ingest_once: the SELECT of get_asset_id_map raises
GetAssetIdMapFail ==
    /\ pc = "map"
    /\ Raise("DBError")
    /\ txOpen' = TRUE
    /\ UNCHANGED <<store, connOpen, pending, runs, cycles, clock>>

\* ingest_once: the for loop that builds rows
Build ==
    /\ pc = "build"
    /\ LET r == BuildRows(data, asset_id_by_symbol, ts)
       IN  IF r.ok
           THEN /\ rows' = r.rows
                /\ pc' = "insert"
                /\ UNCHANGED <<exc, data, ts, asset_id_by_symbol>>
           ELSE Raise("KeyError")
    /\ UNCHANGED <<store, conn, runs, cycles, clock>>

\* ingest_once: execute_values (no statement is sent for an empty rows)
Insert ==
    /\ pc = "insert"
    /\ IF Len(rows) = 0
       THEN UNCHANGED <<pending, tx_seq>>
       ELSE /\ ForeignKeysHold(rows, Visible(users, pending.users),
                               Visible(assets, pending.assets))
            /\ pending' = [pending EXCEPT !.transactions = @ \cup InsertRows(rows, tx_seq)]
            /\ tx_seq' = tx_seq + Len(rows)
    /\ pc' = "commit"
    /\ UNCHANGED <<schema, tables, users_seq, assets_seq, connOpen, txOpen, exc, runs,
                   cycles, clock, locals>>

\* ingest_once: the INSERT raises (a foreign key is violated, or the store
\* fails): no row is written; the ids may have been drawn already
InsertFail ==
    /\ pc = "insert"
    /\ Len(rows) > 0
    /\ \E used \in {0, Len(rows)} : tx_seq' = tx_seq + used
    /\ Raise("DBError")
    /\ UNCHANGED <<schema, tables, users_seq, assets_seq, conn, runs, cycles, clock>>

\* ingest_once: conn.commit(), the status line, return
CommitCycle ==
    /\ pc = "commit"
    /\ DoCommit
    /\ pc' = "sleep"
    /\ ClearLocals
    /\ UNCHANGED <<schema, seqs, connOpen, exc, runs, cycles, clock>>

\* ingest_once: conn.commit() raises
CommitFail ==
    /\ pc = "commit"
    /\ Raise("DBError")
    /\ UNCHANGED <<store, conn, runs, cycles, clock>>

\* main: except requests.HTTPError
HttpHandler ==
    /\ pc = "http_handler"
    /\ exc' = "none"
    /\ pc' = "sleep"
    /\ ClearLocals
    /\ UNCHANGED <<store, conn, runs, cycles, clock>>

\* faulty variant: the handler logs and goes on, without conn.rollback()
GenericHandler_NoRollback ==
    /\ pc = "generic_handler"
    /\ exc' = "none"
    /\ pc' = "sleep"
    /\ ClearLocals
    /\ UNCHANGED <<store, conn, runs, cycles, clock>>

\* main: except Exception, with its conn.rollback(). The store failures of
\* this model are failures of a statement or of a commit on a connection
\* that stays usable, so the rollback itself succeeds.
GenericHandler ==
    /\ pc = "generic_handler"
    /\ DoRollback
    /\ exc' = "none"
    /\ pc' = "sleep"
    /\ ClearLocals
    /\ UNCHANGED <<schema, seqs, connOpen, runs, cycles, clock>>

\* main: time.sleep(POLL_SECONDS), back to the top of the while loop
Sleep ==
    /\ pc = "sleep"
    /\ clock' = clock + POLL_SECONDS
    /\ pc' = "fetch"
    /\ UNCHANGED <<store, conn, exc, runs, cycles, locals>>

\* Ctrl+C while main() is inside its outer try
Interrupt ==
    /\ pc \in InTry
    /\ Raise("KeyboardInterrupt")
    /\ UNCHANGED <<store, conn, runs, cycles, clock>>

\* main: except KeyboardInterrupt
Stopping ==
    /\ pc = "stopping"
    /\ exc' = "none"
    /\ pc' = "finally"
    /\ UNCHANGED <<store, conn, runs, cycles, clock, locals>>

\* main: finally: conn.close()
Finally ==
    /\ pc = "finally"
    /\ DoClose
    /\ pc' = "exited"
    /\ UNCHANGED <<schema, seqs, exc, runs, cycles, clock, locals>>

\* the process is started again on the same store
Restart ==
    /\ pc = "exited"
    /\ runs < MaxRuns
    /\ runs' = runs + 1
    /\ exc' = "none"
    /\ pc' = "boot"
    /\ UNCHANGED <<store, conn, cycles, clock, locals>>

Next ==
    \/ Connect
    \/ ConnectFail
    \/ EnsureSchema
    \/ EnsureSchemaFail
    \/ SeedUser
    \/ SeedAssetRows
    \/ SeedCommit
    \/ SeedFail
    \/ FetchOK
    \/ FetchFail
    \/ GetAssetIdMap
    \/ GetAssetIdMapFail
    \/ Build
    \/ Insert
    \/ InsertFail
    \/ CommitCycle
    \/ CommitFail
    \/ HttpHandler
    \/ GenericHandler
    \/ Sleep
    \/ Interrupt
    \/ Stopping
    \/ Finally
    \/ Restart

Spec == Init /\ [][Next]_vars

\* the interpreter keeps executing main(): an except clause and the finally
\* clause that were entered run to their end
FairSpec == Spec /\ WF_vars(Stopping) /\ WF_vars(Finally)

\* ------------------------------------------------------------- claims
Symbols == {ASSETS[cg][1] : cg \in DOMAIN ASSETS}

\* C1: after seed_reference_data has run, any number of times, users holds
\* exactly one row and assets exactly one row per configured symbol.
C1_SeedingIsIdempotent ==
    users # {} =>
        /\ Cardinality(users) = 1
        /\ \A s \in Symbols : Cardinality({a \in assets : a.symbol = s}) = 1
        /\ Cardinality(assets) = Cardinality(Symbols)

\* a step of the driver other than a Ctrl+C goes where `to` says
ElseInterrupted(to) ==
    \/ pc' \in to
    \/ pc' = "stopping" /\ exc' = "KeyboardInterrupt"

C3_FetchFailureSkipsCycle ==
    /\ [][(pc = "fetch" /\ exc' \in FetchErrors)
            => (pc' \in HandlerPcs /\ tables' = tables /\ pending' = pending)]_vars
    /\ [][(pc \in HandlerPcs /\ exc \in FetchErrors)
            => (tables' = tables /\ ElseInterrupted({"sleep"}))]_vars
    /\ [][(pc = "sleep" /\ pc' # "stopping") => (pc' = "fetch" /\ tables' = tables)]_vars

\* the fetch of a later cycle timed out, rows of an earlier cycle exist
C3_Witness ==
    /\ pc = "generic_handler"
    /\ exc = "Timeout"
    /\ transactions # {}

AllKnownAndPriced(d, asts) ==
    \A i \in 1..Len(d) :
        /\ d[i].cg \in DOMAIN ASSETS
        /\ \E a \in asts : a.symbol = ASSETS[d[i].cg][1]
        /\ "usd" \in DOMAIN d[i].payload

C5_AppendOnly == [][transactions \subseteq transactions']_vars

\* rows of two cycles; no sleep has ended yet, so a process restart lies
\* between the two commits
C5_Witness ==
    /\ runs = 2
    /\ pc = "sleep"
    /\ cycles = 2
    /\ clock = 0
    /\ \E r1, r2 \in transactions : r1.id # r2.id

\* C6: no two rows of assets share a symbol, and every committed row of
\* transactions has user_id 1, the id of a row of users, and an asset_id
\* that is the id of a row of assets.
C6_StoreIntegrity ==
    /\ \A a, b \in assets : a.symbol = b.symbol => a = b
    /\ \A r \in transactions :
          /\ r.user_id = 1
          /\ \E u \in users : u.id = r.user_id
          /\ \E a \in assets : a.id = r.asset_id

\* rows exist, and a second seeding met the unique index
C6_Witness ==
    /\ transactions # {}
    /\ assets_seq > Cardinality(assets)
    /\ assets # {}

\* C7: a KeyboardInterrupt raised anywhere inside main's try goes to the
\* except KeyboardInterrupt clause; from there the process only goes on to
\* the finally clause and the exit, no step of which changes a table; on
\* exit the connection is closed and nothing is left uncommitted; and the
\* connection is closed eventually.
C7_InterruptTerminates ==
    /\ [][(exc' = "KeyboardInterrupt" /\ exc # "KeyboardInterrupt")
            => (pc \in InTry /\ pc' = "stopping" /\ tables' = tables /\ pending' = pending)]_vars
    /\ [][(pc \in Terminating)
            => (pc' \in Terminating \cup {"exited"} /\ tables' = tables)]_vars
    /\ [][pc' = "exited" => (~connOpen' /\ pending' = EmptyPending)]_vars
    /\ ((pc = "stopping") ~> (pc = "exited" /\ ~connOpen))

\* the interrupt's handler has run while a cycle's rows were uncommitted
C7_Witness ==
    /\ pc = "finally"
    /\ exc = "none"
    /\ connOpen
    /\ pending.transactions # {}

\* C8: when connect, ensure_schema or seed_reference_data raises, the
\* process goes to its finally clause or out, with no table changed; from
\* there it only exits; and the startup positions are never entered from
\* the loop, so no cycle ran before the failure.
C8_StartupFailureIsFatal ==
    /\ [][(pc \in StartupPcs \cup {"boot"} /\ exc' = "DBError")
            => (pc' \in {"finally", "exited"} /\ tables' = tables)]_vars
    /\ [][(pc = "finally" /\ exc = "DBError")
            => (pc' = "exited" /\ tables' = tables)]_vars
    /\ [][pc = "exited" => pc' = "boot"]_vars
    /\ [][(pc' \in StartupPcs) => pc \in StartupPcs \cup {"boot"}]_vars

\* seed_reference_data failed after ensure_schema, and the process is gone
C8_Witness ==
    /\ pc = "exited"
    /\ exc = "DBError"
    /\ ~connOpen
    /\ schema # {}
    /\ users_seq > 0
    /\ users = {}

HasUnknown(d, asts) ==
    \E i \in 1..Len(d) :
        \/ d[i].cg \notin DOMAIN ASSETS
        \/ ~ \E a \in asts : a.symbol = ASSETS[d[i].cg][1]

\* C9: transactions changes only in the commit of a cycle, and then by one
\* row for each asset id of the response, all of them configured; while the
\* response in hand has an id that is not configured or not in assets, no
\* step changes transactions, and the row loop ends in the generic handler.
C9_CycleAllOrNothing ==
    /\ [][transactions' # transactions
            => (/\ pc = "commit" /\ pc' = "sleep"
                /\ ~HasUnknown(data, assets)
                /\ Cardinality(transactions' \ transactions) = Len(data)
                /\ {r.asset_id : r \in transactions' \ transactions}
                     = {a.id : a \in {b \in assets :
                           \E i \in 1..Len(data) : b.symbol = ASSETS[data[i].cg][1]}})]_vars
    /\ [][(pc \in CyclePcs \cup HandlerPcs /\ HasUnknown(data, assets))
            => transactions' = transactions]_vars
    /\ [][(pc = "build" /\ HasUnknown(data, assets))
            => ElseInterrupted({"generic_handler"})]_vars

\* a response with a configured, priced id and an unconfigured one raised
\* KeyError
C9_Witness ==
    /\ pc = "generic_handler"
    /\ exc = "KeyError"
    /\ \E i, j \in 1..Len(data) :
          /\ data[i].cg \in DOMAIN ASSETS
          /\ "usd" \in DOMAIN data[i].payload
          /\ data[j].cg \notin DOMAIN ASSETS

\* C10: at the top of the loop, in the sleep and in the HTTP-error handler
\* the connection is in no transaction and holds no uncommitted write, and
\* the HTTP-error handler runs for an HTTPError only.
C10_CycleStartsClean ==
    /\ pc \in {"fetch", "sleep", "http_handler"} => (~txOpen /\ pending = EmptyPending)
    /\ pc = "http_handler" => exc = "HTTPError"

\* a second cycle starts after a first one that wrote rows and failed
C10_Witness ==
    /\ pc = "fetch"
    /\ runs = 1
    /\ cycles = 1
    /\ tx_seq > 0
    /\ transactions = {}

====
